---- MODULE Spec2Model ----
(***************************************************************************)
(* Meeting-Assistant (src/app.py): the meeting-processing pipeline, the    *)
(* JSON artifact store, the retention sweep and the pure text functions,   *)
(* as state machines.                                                      *)
(*                                                                         *)
(* Text is a sequence of chunks.  A chunk is one character, or an          *)
(* indivisible run of non-whitespace characters of a literal of the source *)
(* ("Summary", "(Due:").  The whitespace chunks are " " and "\n".          *)
(***************************************************************************)
EXTENDS Integers, Sequences, FiniteSets, TLC

VARIABLES
    now,          \* the wall clock: [s |-> seconds of the day, us |-> microseconds]
    uploads,      \* UPLOAD_FOLDER: name -> [dir, mtime, data]
    transcripts,  \* TRANSCRIPT_FOLDER: name -> [dir, mtime, data]
    rq,           \* one record per request slot: position and locals of its handler
    ops,          \* requests started so far
    issued,       \* history: the ids new_meeting_id handed out, in order
    put,          \* history: id -> record last written by save_meeting_artifacts
                  \*          and not deleted by delete_meeting_artifacts since
    fin,          \* input of the pure function under check
    fout,         \* its result
    fpc,          \* its position
    wide,         \* whether the outcomes of a run are drawn from the wide sets
    faulty        \* whether the file system calls of the sweep may fail

vars == <<now, uploads, transcripts, rq, ops, issued, put, fin, fout, fpc, wide, faulty>>
sysVars == <<now, uploads, transcripts, rq, ops, issued, put>>
funVars == <<fin, fout, fpc, wide, faulty>>

(***************************************************************************)
(* Bounds of the model                                                     *)
(***************************************************************************)
MaxOps == 2          \* requests started in one behaviour
StartSec == 38695    \* the clock at start: 10:44:55
MaxHours == 1        \* retention periods the clock may advance by
UsStep == 600        \* microseconds of a short clock advance
MaxUs == 600         \* microseconds the clock may advance by in short steps
MaxItems == 2        \* action items of a memo
MaxText == 3         \* chunks of a free text drawn as input

Req == {1, 2}        \* request slots: handlers that may run concurrently

(***************************************************************************)
(* Program constants                                                       *)
(***************************************************************************)
MAX_FILE_AGE_SECONDS == 3600
MinIdLen == 6
MaxIdLen == 80

(***************************************************************************)
(* Text helpers (Python str methods)                                       *)
(***************************************************************************)
IsSpace(c) == c \in {" ", "\n"}

RECURSIVE LStrip(_)
LStrip(s) == IF s # <<>> /\ IsSpace(Head(s)) THEN LStrip(Tail(s)) ELSE s

RECURSIVE RStrip(_)
RStrip(s) ==
    IF s # <<>> /\ IsSpace(s[Len(s)]) THEN RStrip(SubSeq(s, 1, Len(s) - 1)) ELSE s

\* str.strip()
Strip(s) == RStrip(LStrip(s))

\* str.startswith(p)
StartsWith(s, p) == Len(s) >= Len(p) /\ SubSeq(s, 1, Len(p)) = p

\* s[n:]
DropFirst(s, n) == SubSeq(s, n + 1, Len(s))

\* str.splitlines() for "\n" line ends
RECURSIVE SplitLines(_)
SplitLines(s) ==
    IF s = <<>> THEN <<>>
    ELSE IF \E i \in 1..Len(s) : s[i] = "\n"
         THEN LET i == CHOOSE j \in 1..Len(s) :
                           s[j] = "\n" /\ \A k \in 1..(j - 1) : s[k] # "\n"
              IN  <<SubSeq(s, 1, i - 1)>> \o SplitLines(DropFirst(s, i))
         ELSE <<s>>

\* "\n".join(lines)
RECURSIVE JoinLines(_)
JoinLines(ls) ==
    IF ls = <<>> THEN <<>>
    ELSE IF Len(ls) = 1 THEN ls[1]
    ELSE ls[1] \o <<"\n">> \o JoinLines(Tail(ls))

Range(f) == {f[x] : x \in DOMAIN f}

\* a function without the key k (a file removed, a history entry dropped)
Without(f, k) == [x \in DOMAIN f \ {k} |-> f[x]]

\* a function with the key k set to v (a file written)
With(f, k, v) == [x \in DOMAIN f \cup {k} |-> IF x = k THEN v ELSE f[x]]

(***************************************************************************)
(* JSON values, as json.loads yields them: tagged by k                     *)
(***************************************************************************)
JNull == [k |-> "null", v |-> 0]
JBool(b) == [k |-> "bool", v |-> b]
JNum(n) == [k |-> "num", v |-> n]
JStr(s) == [k |-> "str", v |-> s]
JList(xs) == [k |-> "list", v |-> xs]
JObj(f) == [k |-> "obj", v |-> f]

\* Python truthiness of a JSON value
Truthy(x) ==
    CASE x.k = "null" -> FALSE
      [] x.k = "bool" -> x.v
      [] x.k = "num" -> x.v # 0
      [] x.k = "str" -> x.v # <<>>
      [] x.k = "list" -> x.v # <<>>
      [] x.k = "obj" -> DOMAIN x.v # {}

\* dict.get(key), None when the key is absent
Get(d, key) == IF key \in DOMAIN d THEN d[key] ELSE JNull

\* dict.get(key, default)
GetOr(d, key, default) == IF key \in DOMAIN d THEN d[key] ELSE default

\* x or default
Or(x, default) == IF Truthy(x) THEN x ELSE default

(***************************************************************************)
(* The clock                                                               *)
(***************************************************************************)
\* a - b > MAX_FILE_AGE_SECONDS, for time.time() values a and b
\* a variant: age >= MAX_FILE_AGE_SECONDS
AgeAtLeast(a, b) ==
    \/ a.s - b.s > MAX_FILE_AGE_SECONDS
    \/ a.s - b.s = MAX_FILE_AGE_SECONDS /\ a.us >= b.us

AgeExceeds(a, b) ==
    \/ a.s - b.s > MAX_FILE_AGE_SECONDS
    \/ a.s - b.s = MAX_FILE_AGE_SECONDS /\ a.us > b.us

Digit(d) == <<"0", "1", "2", "3", "4", "5", "6", "7", "8", "9">>[d + 1]
D2(n) == <<Digit((n \div 10) % 10), Digit(n % 10)>>
D3(n) == <<Digit((n \div 100) % 10), Digit((n \div 10) % 10), Digit(n % 10)>>
D6(n) == D3(n \div 1000) \o D3(n % 1000)

\* datetime.strftime("%Y%m%d_%H%M%S_%f") on 2026-01-09
Strftime(t) ==
    <<"2", "0", "2", "6", "0", "1", "0", "9", "_">>
        \o D2(t.s \div 3600) \o D2((t.s \div 60) % 60) \o D2(t.s % 60)
        \o <<"_">> \o D6(t.us)

(***************************************************************************)
(* Meeting artifact storage                                                *)
(***************************************************************************)
\* a variant: microseconds kept, no truncation to milliseconds
new_meeting_id_untruncated(t) == Strftime(t)

new_meeting_id(t) == SubSeq(Strftime(t), 1, Len(Strftime(t)) - 3)

IdChars ==
    {"a", "b", "c", "d", "e", "f", "m", "o", "t", "A", "Z", "_", "-",
     "0", "1", "2", "3", "4", "5", "6", "7", "8", "9"}

\* _MEETING_ID_RE.match(s): ^[A-Za-z0-9_-]{6,80}$ , where $ matches at the end
\* of the string and also just before a newline that ends the string
MeetingIdReMatch(s) ==
    \E n \in MinIdLen..MaxIdLen :
        /\ n <= Len(s)
        /\ \A i \in 1..n : s[i] \in IdChars
        /\ \/ n = Len(s)
           \/ n = Len(s) - 1 /\ s[Len(s)] = "\n"

\* safe_meeting_id raises ValueError, or returns the id
safe_meeting_id_raises(id) == id = <<>> \/ ~MeetingIdReMatch(id)

JsonSuffix == <<".", "j", "s", "o", "n">>
MemoSuffix == <<"_", "m", "e", "m", "o">>

\* the file name under TRANSCRIPT_FOLDER (the id is already validated)
meeting_json_path(id) == id \o JsonSuffix

\* the sidecar memo's file name under TRANSCRIPT_FOLDER
memo_path(id) == id \o MemoSuffix \o JsonSuffix

File(t, data) == [dir |-> FALSE, mtime |-> t, data |-> data]
Dir(t) == [dir |-> TRUE, mtime |-> t, data |-> JNull]

\* datetime.isoformat(timespec="seconds")
IsoSeconds(t) ==
    <<"2", "0", "2", "6", "-", "0", "1", "-", "0", "9", "T">>
        \o D2(t.s \div 3600) \o <<":">> \o D2((t.s \div 60) % 60)
        \o <<":">> \o D2(t.s % 60)

\* the payload dict of save_meeting_artifacts, as the JSON document json.dump writes
Payload(t, id, filename, transcript, summary, action_items, language, translated) ==
    JObj([meeting_id |-> JStr(id),
          created_at |-> JStr(IsoSeconds(t)),
          source_filename |-> JStr(filename),
          original_language |-> language,
          was_translated |-> JBool(translated),
          transcript |-> JStr(transcript),
          summary |-> JStr(summary),
          action_items |-> JList([i \in DOMAIN action_items |-> JStr(action_items[i])])])

\* a variant: the summary is not written
PayloadNoSummary(t, id, filename, transcript, summary, action_items, language, translated) ==
    Payload(t, id, filename, transcript, <<>>, action_items, language, translated)

\* save_meeting_artifacts: [raised, files]
save_meeting_artifacts(files, t, id, doc, writeOk) ==
    IF safe_meeting_id_raises(id) THEN [raised |-> "ValueError", files |-> files]
    ELSE IF ~writeOk THEN [raised |-> "OSError", files |-> files]
    ELSE [raised |-> "none", files |-> With(files, meeting_json_path(id), File(t, doc))]

\* load_meeting_artifacts, up to os.path.exists: the exception raised, or "none"
load_check(files, id) ==
    IF safe_meeting_id_raises(id) THEN "ValueError"
    ELSE IF meeting_json_path(id) \notin DOMAIN files THEN "FileNotFoundError"
    ELSE "none"

\* load_meeting_artifacts, open and json.load: [raised, data]
load_open(files, id) ==
    IF meeting_json_path(id) \notin DOMAIN files \/ files[meeting_json_path(id)].dir
    THEN [raised |-> "FileNotFoundError", data |-> JNull]
    ELSE [raised |-> "none", data |-> files[meeting_json_path(id)].data]

\* a variant: a missing file is an error
delete_meeting_artifacts_strict(files, id) ==
    IF safe_meeting_id_raises(id) THEN [raised |-> "ValueError", files |-> files]
    ELSE IF meeting_json_path(id) \notin DOMAIN files
         THEN [raised |-> "FileNotFoundError", files |-> files]
         ELSE [raised |-> "none", files |-> Without(files, meeting_json_path(id))]

\* delete_meeting_artifacts: [raised, files]
delete_meeting_artifacts(files, id) ==
    IF safe_meeting_id_raises(id) THEN [raised |-> "ValueError", files |-> files]
    ELSE IF meeting_json_path(id) \notin DOMAIN files
         THEN [raised |-> "none", files |-> files]
         ELSE [raised |-> "none", files |-> Without(files, meeting_json_path(id))]

(***************************************************************************)
(* Language detection and translation                                      *)
(*                                                                         *)
(* An external call's outcome is [k, v]: "raise" (the call raised), or,    *)
(* for a call whose content goes to json.loads, "empty" (no content),      *)
(* "garbage" (content json.loads rejects) and "json" (v is the value       *)
(* parsed); for a call whose content is used as text, "ok" (v is the       *)
(* content: JNull or a JStr).                                              *)
(***************************************************************************)
Raise == [k |-> "raise", v |-> JNull]
Empty == [k |-> "empty", v |-> JNull]
Garbage == [k |-> "garbage", v |-> JNull]
Json(x) == [k |-> "json", v |-> x]
Ok(x) == [k |-> "ok", v |-> x]

Unknown == JStr(<<"Unknown">>)

NormResult(text, lang, translated) ==
    [raised |-> FALSE, text |-> text, lang |-> lang, translated |-> translated]

\* a variant: an empty translation is returned as the working text
detect_and_translate_keep_empty(text, det, tr) ==
    IF Strip(text) = <<>> THEN NormResult(text, Unknown, FALSE)
    ELSE IF det.k # "json" \/ det.v.k # "obj" THEN NormResult(text, Unknown, FALSE)
    ELSE IF Truthy(GetOr(det.v.v, "is_english", JBool(TRUE)))
         THEN NormResult(text, GetOr(det.v.v, "detected_language", Unknown), FALSE)
    ELSE IF tr.k = "raise"
         THEN NormResult(text, GetOr(det.v.v, "detected_language", Unknown), FALSE)
    ELSE NormResult(Strip(Or(tr.v, JStr(<<>>)).v),
                    GetOr(det.v.v, "detected_language", Unknown), TRUE)

\* detect_and_translate_if_needed(text): [raised, text, lang, translated]
\* det is the classification call's outcome, tr the translation call's
detect_and_translate_if_needed(text, det, tr) ==
    IF Strip(text) = <<>> THEN NormResult(text, Unknown, FALSE)
    \* the call raised, json.loads("") or json.loads(garbage) raised
    ELSE IF det.k # "json" THEN NormResult(text, Unknown, FALSE)
    \* result.get on a value that is no dict: AttributeError, caught
    ELSE IF det.v.k # "obj" THEN NormResult(text, Unknown, FALSE)
    ELSE LET language_name == GetOr(det.v.v, "detected_language", Unknown)
             is_english == GetOr(det.v.v, "is_english", JBool(TRUE))
         IN  IF Truthy(is_english) THEN NormResult(text, language_name, FALSE)
             ELSE IF tr.k = "raise" THEN NormResult(text, language_name, FALSE)
             ELSE LET translated_text == Strip(Or(tr.v, JStr(<<>>)).v)
                  IN  IF translated_text # <<>>
                      THEN NormResult(translated_text, language_name, TRUE)
                      ELSE NormResult(text, language_name, FALSE)

(***************************************************************************)
(* Memo rendering                                                          *)
(***************************************************************************)
\* str(x)
StrOf(x) ==
    CASE x.k = "str" -> x.v
      [] x.k = "null" -> <<"None">>
      [] x.k = "bool" -> IF x.v THEN <<"True">> ELSE <<"False">>
      [] x.k = "num" -> <<Digit(x.v % 10)>>
      [] x.k = "list" -> <<"[...]">>
      [] x.k = "obj" -> <<"{...}">>

\* for ... in x raises TypeError
IterRaises(x) == x.k \in {"num", "bool", "null"}

RECURSIVE SeqOfSet(_)
SeqOfSet(S) ==
    IF S = {} THEN <<>> ELSE LET x == CHOOSE y \in S : TRUE IN <<x>> \o SeqOfSet(S \ {x})

\* what for ... in x yields: the elements of a list, the characters of a str,
\* the keys of a dict
IterItems(x) ==
    CASE x.k = "list" -> x.v
      [] x.k = "str" -> [i \in DOMAIN x.v |-> JStr(<<x.v[i]>>)]
      [] x.k = "obj" -> LET ks == SeqOfSet(DOMAIN x.v)
                        IN  [i \in DOMAIN ks |-> JStr(<<ks[i]>>)]

\* (x or default).strip() raises AttributeError
StripRaises(x, default) == Or(x, default).k # "str"

\* (x or default).strip()
StripOr(x, default) == Strip(Or(x, default).v)

\* the "- " lines of the items that are not blank
RECURSIVE Bullets(_)
Bullets(items) ==
    IF items = <<>> THEN <<>>
    ELSE LET s == Strip(StrOf(Head(items)))
         IN  (IF s # <<>> THEN <<<<"-", " ">> \o s>> ELSE <<>>) \o Bullets(Tail(items))

\* add_section(header, data.get(key) or []) raises
SectionRaises(d, key) ==
    LET items == Or(Get(d, key), JList(<<>>))
    IN  Truthy(items) /\ IterRaises(items)

\* a variant: the header of a section is emitted also when it has no items
add_section_always(d, header, key) ==
    LET items == Or(Get(d, key), JList(<<>>))
    IN  <<header, <<>>>> \o Bullets(IF Truthy(items) THEN IterItems(items) ELSE <<>>)
            \o << <<>> >>

\* the lines add_section(header, data.get(key) or []) appends
add_section(d, header, key) ==
    LET items == Or(Get(d, key), JList(<<>>))
    IN  IF ~Truthy(items) THEN <<>>
        ELSE <<header, <<>>>> \o Bullets(IterItems(items)) \o << <<>> >>

\* one pass of the loop over notes_by_section raises
DetailRaises(sec) ==
    /\ sec.k = "obj"
    /\ \/ StripRaises(Get(sec.v, "heading"), JStr(<<>>))
       \/ LET bullets == Or(Get(sec.v, "bullets"), JList(<<>>))
          IN  Truthy(bullets) /\ IterRaises(bullets)

\* the lines one pass of the loop over notes_by_section appends
DetailLines(sec) ==
    IF sec.k # "obj" THEN <<>>
    ELSE LET heading == StripOr(Get(sec.v, "heading"), JStr(<<>>))
             bullets == Or(Get(sec.v, "bullets"), JList(<<>>))
         IN  (IF heading # <<>> THEN <<heading, <<>>>> ELSE <<>>)
                 \o Bullets(IF Truthy(bullets) THEN IterItems(bullets) ELSE <<>>)
                 \o << <<>> >>

RECURSIVE DetailsOf(_)
DetailsOf(secs) ==
    IF secs = <<>> THEN <<>> ELSE DetailLines(Head(secs)) \o DetailsOf(Tail(secs))

\* the Details block
Details(d) ==
    LET sections == Or(Get(d, "notes_by_section"), JList(<<>>))
    IN  IF ~Truthy(sections) THEN <<>>
        ELSE <<<<"Details">>, <<>>>> \o DetailsOf(IterItems(sections))

DetailsRaise(d) ==
    LET sections == Or(Get(d, "notes_by_section"), JList(<<>>))
    IN  /\ Truthy(sections)
        /\ \/ IterRaises(sections)
           \/ \E i \in DOMAIN IterItems(sections) : DetailRaises(IterItems(sections)[i])

\* while lines and lines[-1] == "": lines.pop()
RECURSIVE TrimTrailingBlank(_)
TrimTrailingBlank(lines) ==
    IF lines # <<>> /\ lines[Len(lines)] = <<>>
    THEN TrimTrailingBlank(SubSeq(lines, 1, Len(lines) - 1))
    ELSE lines

DefaultTitle == JStr(<<"Meeting", " ", "Notes">>)
DefaultType == JStr(<<"other">>)

SectionKeys ==
    <<"summary_bullets", "key_topics", "decisions", "risks_blockers", "open_questions">>

SectionHeaders ==
    << <<"Summary">>, <<"Key", " ", "Topics">>, <<"Decisions">>,
       <<"Risks", " ", "/", " ", "Blockers">>, <<"Open", " ", "Questions">> >>

\* _render_memo_to_text(data) raises, for the dict d
render_memo_raises(d) ==
    \/ StripRaises(Get(d, "title"), DefaultTitle)
    \/ StripRaises(Get(d, "meeting_type"), DefaultType)
    \/ \E i \in DOMAIN SectionKeys : SectionRaises(d, SectionKeys[i])
    \/ DetailsRaise(d)

\* the lines of _render_memo_to_text(data), before the join
render_memo_lines(d) ==
    TrimTrailingBlank(
        <<StripOr(Get(d, "title"), DefaultTitle),
          <<"Type:", " ">> \o StripOr(Get(d, "meeting_type"), DefaultType),
          <<>>>>
        \o add_section(d, SectionHeaders[1], SectionKeys[1])
        \o add_section(d, SectionHeaders[2], SectionKeys[2])
        \o add_section(d, SectionHeaders[3], SectionKeys[3])
        \o add_section(d, SectionHeaders[4], SectionKeys[4])
        \o add_section(d, SectionHeaders[5], SectionKeys[5])
        \o Details(d))

\* _render_memo_to_text(data), for the dict d
render_memo_to_text(d) == JoinLines(render_memo_lines(d))

(***************************************************************************)
(* Summarization                                                           *)
(***************************************************************************)
\* the chunk that stands for the em dash (U+2014) of the format string
EmDash == "--"

Unassigned == JStr(<<"Unassigned">>)
NotStated == JStr(<<"Not", " ", "stated">>)

\* the loop body of the normalization raises on the item ai
normalize_item_raises(ai) ==
    /\ ai.k = "obj"
    /\ \/ StripRaises(Get(ai.v, "item"), JStr(<<>>))
       \/ StripRaises(Get(ai.v, "owner"), Unassigned)
       \/ StripRaises(Get(ai.v, "due"), NotStated)

\* a variant: the owner is not defaulted
normalize_item_no_default(ai) ==
    IF ai.k = "str"
    THEN IF Strip(ai.v) # <<>> THEN <<Strip(ai.v)>> ELSE <<>>
    ELSE IF ai.k = "obj"
    THEN LET item == StripOr(Get(ai.v, "item"), JStr(<<>>))
             owner == StripOr(Get(ai.v, "owner"), JStr(<<>>))
             due == StripOr(Get(ai.v, "due"), NotStated)
         IN  IF item # <<>>
             THEN <<item \o <<" ", EmDash, " ">> \o owner \o <<" ", "(Due:", " ">>
                        \o due \o <<")">>>>
             ELSE <<>>
    ELSE <<>>

\* what the loop body of the normalization appends for the item ai
normalize_item(ai) ==
    IF ai.k = "str"
    THEN IF Strip(ai.v) # <<>> THEN <<Strip(ai.v)>> ELSE <<>>
    ELSE IF ai.k = "obj"
    THEN LET item == StripOr(Get(ai.v, "item"), JStr(<<>>))
             owner == StripOr(Get(ai.v, "owner"), Unassigned)
             due == StripOr(Get(ai.v, "due"), NotStated)
         IN  IF item # <<>>
             THEN <<item \o <<" ", EmDash, " ">> \o owner \o <<" ", "(Due:", " ">>
                        \o due \o <<")">>>>
             ELSE <<>>
    ELSE <<>>

RECURSIVE NormalizeSeq(_)
NormalizeSeq(items) ==
    IF items = <<>> THEN <<>>
    ELSE normalize_item(Head(items)) \o NormalizeSeq(Tail(items))

\* the normalization of data.get("action_items") or [] raises
normalize_raises(d) ==
    LET raw == Or(Get(d, "action_items"), JList(<<>>))
    IN  /\ Truthy(raw)
        /\ \/ IterRaises(raw)
           \/ \E i \in DOMAIN IterItems(raw) : normalize_item_raises(IterItems(raw)[i])

\* the normalization of data.get("action_items") or []
normalize_action_items(d) ==
    LET raw == Or(Get(d, "action_items"), JList(<<>>))
    IN  IF ~Truthy(raw) THEN <<>> ELSE NormalizeSeq(IterItems(raw))

\* [ln[2:].strip() for ln in text.splitlines() if ln.strip().startswith("- ")]
RECURSIVE FallbackItems(_)
FallbackItems(lines) ==
    IF lines = <<>> THEN <<>>
    ELSE (IF StartsWith(Strip(Head(lines)), <<"-", " ">>)
          THEN <<Strip(DropFirst(Head(lines), 2))>>
          ELSE <<>>) \o FallbackItems(Tail(lines))

EmptyDict == <<>>

SumResult(summary, items, memo, fallback) ==
    [raised |-> FALSE, summary |-> summary, items |-> items, memo |-> memo,
     fallback |-> fallback]

\* the structured attempt: data, or the fact that the try block raised
structured_data(st) == IF st.k = "empty" THEN JObj(EmptyDict) ELSE st.v

\* a variant: no content is parsed like any other content, json.loads("") raises
structured_raises_on_empty(st) ==
    \/ st.k \in {"raise", "garbage", "empty"}
    \/ structured_data(st).k # "obj"
    \/ render_memo_raises(structured_data(st).v)
    \/ normalize_raises(structured_data(st).v)

structured_raises(st) ==
    \/ st.k \in {"raise", "garbage"}
    \/ structured_data(st).k # "obj"
    \/ render_memo_raises(structured_data(st).v)
    \/ normalize_raises(structured_data(st).v)

\* the fallback attempt
fallback_result(fb) ==
    IF fb.k = "raise" THEN SumResult(<<>>, <<>>, JObj(EmptyDict), TRUE)
    ELSE LET text == Strip(Or(fb.v, JStr(<<>>)).v)
         IN  SumResult(text, FallbackItems(SplitLines(text)), JObj(EmptyDict), TRUE)

\* the structured attempt, when it does not raise
structured_result(st) ==
    SumResult(render_memo_to_text(structured_data(st).v),
              normalize_action_items(structured_data(st).v),
              structured_data(st), FALSE)

\* summarize_and_extract_actions: [raised, summary, items, memo, fallback]
\* st is the structured call's outcome, fb the fallback call's
summarize_and_extract_actions(st, fb) ==
    IF structured_raises(st) THEN fallback_result(fb) ELSE structured_result(st)

(***************************************************************************)
(* Requests: what the clients and the external services may send           *)
(***************************************************************************)
\* secure_filename keeps ASCII letters, digits, "-", "_" and "."
SafeChunks == {"a", ".", "mp3", "_", "-"}

RECURSIVE StripDots(_)
StripDots(s) ==
    IF s # <<>> /\ Head(s) \in {".", "_"} THEN StripDots(Tail(s))
    ELSE IF s # <<>> /\ s[Len(s)] \in {".", "_"}
         THEN StripDots(SubSeq(s, 1, Len(s) - 1))
         ELSE s

\* werkzeug's secure_filename
secure_filename(raw) == StripDots(SelectSeq(raw, LAMBDA c : c \in SafeChunks))

\* os.path.splitext(filename)[0] + ".txt"
TxtName(filename) ==
    (IF \E i \in 2..Len(filename) : filename[i] = "."
     THEN SubSeq(filename, 1,
                 (CHOOSE i \in 2..Len(filename) :
                      filename[i] = "." /\ \A j \in (i + 1)..Len(filename) :
                                               filename[j] # ".") - 1)
     ELSE filename) \o <<".", "txt">>

\* str.lower()
Lower(s) == [i \in DOMAIN s |-> IF s[i] = "English" THEN "english" ELSE s[i]]

\* the uploads a process request may carry: no file part, an empty file name,
\* a plain name, a name with no ASCII character
Uploads ==
    {[has |-> FALSE, raw |-> <<>>],
     [has |-> TRUE, raw |-> <<>>],
     [has |-> TRUE, raw |-> <<"a", ".", "mp3">>],
     [has |-> TRUE, raw |-> <<"U+4F1A", "U+8B70">>]}

Spanish == JStr(<<"Spanish">>)

Hola == JStr(<<"hola">>)
Hello == JStr(<<"hello">>)
SyncMemo == JObj([title |-> JStr(<<"Sync">>), action_items |-> JList(<<JStr(<<"ship">>)>>)])
NonEnglish(lang) == Json(JObj([detected_language |-> lang, is_english |-> JBool(FALSE)]))

\* The outcomes of the external calls and of the file writes of one run:
\* tr the transcription, det the classification, tl the translation, st the
\* structured memo call, fb the fallback call, bs and ba the translations back,
\* wOk, mOk and aOk the writes of the transcript file, the sidecar memo and the
\* artifact record.
WideEnv ==
    [tr : {Raise, Ok(Hola)},
     det : {Raise, NonEnglish(Spanish), NonEnglish(JList(<<Spanish>>))},
     tl : {Raise, Ok(Hello)},
     st : {Raise, Json(SyncMemo)},
     fb : {Raise, Ok(JStr(<<"-", " ", "ship">>))},
     bs : {Raise, Ok(JStr(<<"resumen">>))},
     ba : {Raise, Ok(JStr(<<"resumen">>))},
     wOk : BOOLEAN, mOk : BOOLEAN, aOk : BOOLEAN]

\* the same with fewer failures, for the runs that share the store
LeanEnv ==
    {e \in WideEnv : /\ e.tl.k = "ok" /\ e.st.k = "json" /\ e.fb.k = "ok"
                     /\ e.bs.k = "ok" /\ e.ba.k = "ok" /\ e.wOk /\ e.mOk}

PipeEnv == IF wide THEN WideEnv ELSE LeanEnv

\* the id of an earlier meeting, whose files are in the store at the start
EarlierId ==
    <<"2", "0", "2", "6", "0", "1", "0", "9", "_", "1", "0", "4", "4", "5", "4",
      "_", "1", "2", "3">>
\* a well-formed id no meeting has, an id too short, an id too long, an id that
\* ends in a newline
MissingId == <<"a", "b", "c", "d", "e", "f">>
ShortId == <<"a", "b">>
LongId == [i \in 1..(MaxIdLen + 1) |-> "a"]
NewlineId == <<"a", "b", "c", "d", "e", "f", "\n">>
FixedIds == {MissingId, ShortId, LongId, NewlineId}

EndsWith(s, p) == Len(s) >= Len(p) /\ SubSeq(s, Len(s) - Len(p) + 1, Len(s)) = p

\* the ids a download or discard request may name: the fixed ones, the ids of
\* the meetings there are or were, the names of the .json files
LookupIds ==
    FixedIds \cup {EarlierId} \cup Range(issued) \cup DOMAIN put
        \cup {SubSeq(n, 1, Len(n) - Len(JsonSuffix)) :
                  n \in {m \in DOMAIN transcripts : EndsWith(m, JsonSuffix)}}

(***************************************************************************)
(* The request slots                                                       *)
(***************************************************************************)
NoResp == [code |-> 0, body |-> JNull]

Idle ==
    [pc |-> "idle", op |-> "none", id |-> <<>>, up |-> [has |-> FALSE, raw |-> <<>>],
     filename |-> <<>>, trOk |-> FALSE, original |-> <<>>,
     norm |-> NormResult(<<>>, Unknown, FALSE), tfile |-> <<>>,
     sum |-> SumResult(<<>>, <<>>, JObj(EmptyDict), FALSE),
     osum |-> <<>>, oitems |-> <<>>,
     sweepNow |-> [s |-> 0, us |-> 0], folder |-> 0, todo |-> <<>>, cur |-> <<>>,
     resp |-> NoResp, exc |-> "none", hit |-> FALSE, expect |-> JNull,
     \* history: the file was there at the check and gone at the access
     lost |-> FALSE]

\* the handler returns: its locals are gone, the response stays
Respond(q, code, body, exc) ==
    [Idle EXCEPT !.pc = "done", !.op = q.op, !.id = q.id, !.up = q.up, !.trOk = q.trOk,
                 !.hit = q.hit, !.expect = q.expect, !.lost = q.lost,
                 !.resp = [code |-> code, body |-> body], !.exc = exc]

ErrorBody(msg) == JObj([error |-> JStr(<<msg>>)])

Start == [s |-> StartSec, us |-> 0]

EarlierMemo == JObj([title |-> JStr(<<"Sync">>)])

EarlierDoc ==
    Payload(Start, EarlierId, <<"a", ".", "mp3">>, <<"hola">>,
            render_memo_to_text(EarlierMemo.v), <<>>, Unknown, FALSE)

\* The store at the start: a folder someone made, and the files of an earlier run.
\* the transcripts folder after an earlier meeting, with a directory in it
InitFiles ==
    [n \in {<<"archive">>, <<"a", ".", "txt">>, memo_path(EarlierId),
            meeting_json_path(EarlierId)} |->
        IF n = <<"archive">> THEN Dir(Start)
        ELSE IF n = <<"a", ".", "txt">> THEN File(Start, JStr(<<"hola">>))
        ELSE IF n = memo_path(EarlierId) THEN File(Start, EarlierMemo)
        ELSE File(Start, EarlierDoc)]

InitStore ==
    /\ now = Start
    /\ uploads = <<>>
    /\ transcripts = InitFiles
    /\ rq = [r \in Req |-> Idle]
    /\ ops = 0
    /\ issued = <<>>
    /\ put = [id \in {EarlierId} |-> EarlierDoc]

Init ==
    /\ InitStore
    /\ fin = <<>>
    /\ fout = <<>>
    /\ fpc = "off"
    /\ wide = FALSE
    /\ faulty = FALSE

(***************************************************************************)
(* The clock advances                                                      *)
(***************************************************************************)
\* The short advances come first, the long ones after them: the instants at which
\* the model observes the clock form one chain.
TickShort ==
    /\ now.s = StartSec
    /\ now.us + UsStep <= MaxUs
    /\ now' = [now EXCEPT !.us = @ + UsStep]
    /\ UNCHANGED <<uploads, transcripts, rq, ops, issued, put, funVars>>

TickLong ==
    /\ now.us + UsStep > MaxUs
    /\ now.s + MAX_FILE_AGE_SECONDS <= StartSec + MaxHours * MAX_FILE_AGE_SECONDS
    /\ now' = [now EXCEPT !.s = @ + MAX_FILE_AGE_SECONDS]
    /\ UNCHANGED <<uploads, transcripts, rq, ops, issued, put, funVars>>

(***************************************************************************)
(* process: the retention sweep (cleanup_old_files)                        *)
(***************************************************************************)
Folder(f) == IF f = 1 THEN uploads ELSE transcripts

\* The slots are alike: the requests take them in turn, each when the handler
\* that had it has returned.
Free(r) ==
    /\ rq[r].pc \in {"idle", "done"}
    /\ r = (ops % Cardinality(Req)) + 1

\* POST /process arrives; cleanup_old_files reads time.time()
StartProcess(r) ==
    /\ Free(r)
    /\ ops < MaxOps
    /\ \E u \in Uploads :
           rq' = [rq EXCEPT ![r] = [Idle EXCEPT !.pc = "sweep_dir", !.op = "process",
                                                !.up = u, !.sweepNow = now,
                                                !.folder = 1]]
    /\ ops' = ops + 1
    /\ UNCHANGED <<now, uploads, transcripts, issued, put, funVars>>

\* what a file system call of the sweep may do: succeed, or fail when the
\* file system is faulty
CallOk == IF faulty THEN BOOLEAN ELSE {TRUE}

\* os.path.isdir(folder) and os.listdir(folder): the names, in the folder's order.
\* A folder that is not there is skipped (line 65); os.listdir is called outside
\* the try block, and when it raises (the folder is gone since the check, or
\* cannot be read) no handler catches it: the request ends in a 500 response.
SweepDir(r) ==
    /\ rq[r].pc = "sweep_dir"
    /\ \E isdir \in CallOk, listed \in CallOk :
           rq' = [rq EXCEPT ![r] =
                      IF ~isdir THEN [@ EXCEPT !.pc = "sweep_next", !.todo = <<>>]
                      ELSE IF ~listed THEN Respond(@, 500, JNull, "OSError")
                      ELSE [@ EXCEPT !.pc = "sweep_next",
                                     !.todo = SeqOfSet(DOMAIN Folder(rq[r].folder))]]
    /\ UNCHANGED <<now, uploads, transcripts, ops, issued, put, funVars>>

\* the next name of the listing: os.path.isfile(path)
SweepIsFile(r) ==
    /\ rq[r].pc = "sweep_next"
    /\ rq[r].todo # <<>>
    /\ LET name == Head(rq[r].todo)
           files == Folder(rq[r].folder)
           isfile == name \in DOMAIN files /\ ~files[name].dir
       IN  rq' = [rq EXCEPT ![r].todo = Tail(@),
                                ![r].cur = IF isfile THEN name ELSE <<>>,
                                ![r].pc = IF isfile THEN "sweep_mtime" ELSE "sweep_next"]
    /\ UNCHANGED <<now, uploads, transcripts, ops, issued, put, funVars>>

\* the listing of a folder is exhausted: the next folder, or the end of the sweep
SweepDirDone(r) ==
    /\ rq[r].pc = "sweep_next"
    /\ rq[r].todo = <<>>
    /\ rq' = [rq EXCEPT ![r].pc = IF rq[r].folder = 1 THEN "sweep_dir" ELSE "intake",
                        ![r].folder = IF rq[r].folder = 1 THEN 2 ELSE 0]
    /\ UNCHANGED <<now, uploads, transcripts, ops, issued, put, funVars>>

\* age = now - os.path.getmtime(path); a file that vanished raises, and is skipped
SweepMtime(r) ==
    /\ rq[r].pc = "sweep_mtime"
    /\ \E read \in CallOk :
           LET files == Folder(rq[r].folder)
               old == /\ read
                      /\ rq[r].cur \in DOMAIN files
                      /\ AgeExceeds(rq[r].sweepNow, files[rq[r].cur].mtime)
           IN  rq' = [rq EXCEPT ![r].pc = IF old THEN "sweep_rm" ELSE "sweep_next",
                                ![r].cur = IF old THEN @ ELSE <<>>]
    /\ UNCHANGED <<now, uploads, transcripts, ops, issued, put, funVars>>

\* os.remove(path); a file that vanished raises, and is skipped
SweepRemove(r) ==
    /\ rq[r].pc = "sweep_rm"
    /\ \E removed \in CallOk :
           IF ~removed THEN UNCHANGED <<uploads, transcripts>>
           ELSE IF rq[r].folder = 1
           THEN /\ uploads' = Without(uploads, rq[r].cur)
                /\ UNCHANGED transcripts
           ELSE /\ transcripts' = Without(transcripts, rq[r].cur)
                /\ UNCHANGED uploads
    /\ rq' = [rq EXCEPT ![r].pc = "sweep_next", ![r].cur = <<>>]
    /\ UNCHANGED <<now, ops, issued, put, funVars>>

(***************************************************************************)
(* process: the pipeline                                                   *)
(***************************************************************************)
Audio == JStr(<<"audio">>)

\* the upload is examined and saved (lines 499-509)
Intake(r) ==
    /\ rq[r].pc = "intake"
    /\ LET q == rq[r]
           filename == secure_filename(q.up.raw)
       IN  IF ~q.up.has
           THEN /\ rq' = [rq EXCEPT ![r] = Respond(q, 400, ErrorBody("No file part in request."), "none")]
                /\ UNCHANGED uploads
           ELSE IF q.up.raw = <<>>
           THEN /\ rq' = [rq EXCEPT ![r] = Respond(q, 400, ErrorBody("No file selected."), "none")]
                /\ UNCHANGED uploads
           ELSE IF filename = <<>>
           \* file.save("uploads/") raises IsADirectoryError: no handler catches it
           THEN /\ rq' = [rq EXCEPT ![r] = Respond(q, 500, JNull, "IsADirectoryError")]
                /\ UNCHANGED uploads
           ELSE /\ uploads' = With(uploads, filename, File(now, Audio))
                /\ rq' = [rq EXCEPT ![r].pc = "pipeline", ![r].filename = filename]
    /\ UNCHANGED <<now, transcripts, ops, issued, put, funVars>>

\* [item.strip() for item in text.split("\n") if item.strip()]
RECURSIVE NonBlankLines(_)
NonBlankLines(lines) ==
    IF lines = <<>> THEN <<>>
    ELSE (IF Strip(Head(lines)) # <<>> THEN <<Strip(Head(lines))>> ELSE <<>>)
             \o NonBlankLines(Tail(lines))

\* was_translated and detected_language and detected_language.lower() != "english"
\* raises AttributeError: the detected language is no str
back_translation_raises(norm) ==
    norm.translated /\ Truthy(norm.lang) /\ norm.lang.k # "str"

back_translation_wanted(norm) ==
    norm.translated /\ Truthy(norm.lang) /\ Lower(norm.lang.v) # <<"english">>

\* the blocking calls from the transcription to the artifact write (lines 515-612).
\* The run shares only the files and the clock with the other requests; it reads
\* the upload, then writes the transcript file, the sidecar memo and the record.
Pipeline(r) ==
    /\ rq[r].pc = "pipeline"
    /\ \E e \in PipeEnv :
           LET q == rq[r]
               opened == q.filename \in DOMAIN uploads
               text == Or(e.tr.v, JStr(<<>>)).v
               norm == detect_and_translate_if_needed(text, e.det, e.tl)
               tfile == IF e.wOk THEN TxtName(q.filename) ELSE <<>>
               withTxt == IF e.wOk
                          THEN With(transcripts, TxtName(q.filename),
                                    File(now, JStr(norm.text)))
                          ELSE transcripts
               sum == summarize_and_extract_actions(e.st, e.fb)
               osum == IF back_translation_wanted(norm) /\ e.bs.k = "ok"
                       THEN Strip(e.bs.v.v) ELSE sum.summary
               oitems == IF back_translation_wanted(norm) /\ e.ba.k = "ok"
                         THEN NonBlankLines(SplitLines(Strip(e.ba.v.v)))
                         ELSE sum.items
               id == new_meeting_id(now)
               withMemo == IF e.mOk THEN With(withTxt, memo_path(id), File(now, sum.memo))
                           ELSE withTxt
               doc == Payload(now, id, q.filename, norm.text, sum.summary, sum.items,
                              norm.lang, norm.translated)
               saved == save_meeting_artifacts(withMemo, now, id, doc, e.aOk)
           IN  IF ~opened \/ e.tr.k = "raise"
               \* open(file_path) or the transcription call raised (line 517)
               THEN /\ rq' = [rq EXCEPT ![r] =
                                 Respond(q, 500, ErrorBody("Error processing the audio file"),
                                         IF opened THEN "TranscriptionError"
                                         ELSE "FileNotFoundError")]
                    /\ UNCHANGED <<transcripts, issued, put>>
               ELSE IF back_translation_raises(norm)
               \* line 553: no handler catches it, the request ends in a 500 response
               THEN /\ rq' = [rq EXCEPT ![r] =
                                 Respond([q EXCEPT !.trOk = TRUE], 500, JNull,
                                         "AttributeError")]
                    /\ transcripts' = withTxt
                    /\ UNCHANGED <<issued, put>>
               ELSE /\ rq' = [rq EXCEPT ![r].pc = "finish", ![r].trOk = TRUE,
                                        ![r].original = text, ![r].norm = norm,
                                        ![r].tfile = tfile, ![r].sum = sum,
                                        ![r].osum = osum, ![r].oitems = oitems,
                                        ![r].id = id, ![r].hit = saved.raised = "none"]
                    /\ transcripts' = saved.files
                    /\ issued' = Append(issued, id)
                    /\ put' = IF saved.raised = "none" THEN With(put, id, doc) ELSE put
    /\ UNCHANGED <<now, uploads, ops, funVars>>

ProcessBody(q) ==
    JObj([meeting_id |-> JStr(q.id),
          transcript |-> JStr(q.original),
          english_transcript |-> JStr(q.norm.text),
          summary |-> JStr(q.osum),
          english_summary |-> JStr(q.sum.summary),
          action_items |-> JList([i \in DOMAIN q.oitems |-> JStr(q.oitems[i])]),
          english_action_items |-> JList([i \in DOMAIN q.sum.items |-> JStr(q.sum.items[i])]),
          transcript_file |-> JStr(q.tfile),
          original_language |-> q.norm.lang,
          was_translated |-> JBool(q.norm.translated),
          memo_json |-> q.sum.memo])

\* the audio file is removed and the result returned (lines 615-637)
Finish(r) ==
    /\ rq[r].pc = "finish"
    /\ uploads' = Without(uploads, rq[r].filename)
    /\ rq' = [rq EXCEPT ![r] = Respond(rq[r], 200, ProcessBody(rq[r]), "none")]
    /\ UNCHANGED <<now, transcripts, ops, issued, put, funVars>>

(***************************************************************************)
(* download and discard                                                    *)
(***************************************************************************)
\* a variant: only ValueError is caught
download_abort_uncaught(exc) == IF exc = "ValueError" THEN 404 ELSE 500

\* ValueError and FileNotFoundError both end in abort(404)
download_abort_code(exc) == 404

\* GET /download/<meeting_id> arrives.  load_meeting_artifacts: the id is
\* validated, os.path.exists(path)
Download(r) ==
    /\ Free(r)
    /\ ops < MaxOps
    /\ \E id \in LookupIds :
           LET q == [Idle EXCEPT !.op = "download", !.id = id]
               exc == load_check(transcripts, id)
           IN  rq' = [rq EXCEPT ![r] =
                          IF exc = "none" THEN [q EXCEPT !.pc = "dl_open"]
                          ELSE Respond([q EXCEPT !.hit = id \in DOMAIN put],
                                       download_abort_code(exc), JNull, exc)]
    /\ ops' = ops + 1
    /\ UNCHANGED <<now, uploads, transcripts, issued, put, funVars>>

\* load_meeting_artifacts: open and json.load; then the report is built
DownloadOpen(r) ==
    /\ rq[r].pc = "dl_open"
    /\ LET got == load_open(transcripts, rq[r].id)
           q == [rq[r] EXCEPT !.hit = rq[r].id \in DOMAIN put]
       IN  rq' = [rq EXCEPT ![r] =
                      IF got.raised = "none"
                      THEN Respond([q EXCEPT !.expect =
                                        IF q.hit THEN put[q.id] ELSE JNull],
                                   200, got.data, "none")
                      ELSE Respond([q EXCEPT !.lost = TRUE],
                                   download_abort_code(got.raised), JNull, got.raised)]
    /\ UNCHANGED <<now, uploads, transcripts, ops, issued, put, funVars>>

\* POST /discard/<meeting_id> arrives: safe_meeting_id, delete_meeting_artifacts
\* and the answer
Discard(r) ==
    /\ Free(r)
    /\ ops < MaxOps
    /\ \E id \in LookupIds :
           LET q == [Idle EXCEPT !.op = "discard", !.id = id,
                                 !.hit = meeting_json_path(id) \in DOMAIN transcripts]
               del == delete_meeting_artifacts(transcripts, id)
           IN  /\ transcripts' = del.files
               /\ put' = IF del.raised = "none" THEN Without(put, id) ELSE put
               /\ rq' = [rq EXCEPT ![r] =
                             IF del.raised = "none"
                             THEN Respond(q, 200, JObj([status |-> JStr(<<"discarded">>),
                                                        meeting_id |-> JStr(id)]), "none")
                             ELSE IF del.raised = "ValueError"
                             THEN Respond(q, 400, JNull, "ValueError")
                             \* no handler catches it
                             ELSE Respond(q, 500, JNull, del.raised)]
    /\ ops' = ops + 1
    /\ UNCHANGED <<now, uploads, issued, funVars>>

Next ==
    \/ TickShort
    \/ TickLong
    \/ \E r \in Req :
           \/ StartProcess(r)
           \/ SweepDir(r)
           \/ SweepIsFile(r)
           \/ SweepDirDone(r)
           \/ SweepMtime(r)
           \/ SweepRemove(r)
           \/ Intake(r)
           \/ Pipeline(r)
           \/ Finish(r)
           \/ Download(r)
           \/ DownloadOpen(r)
           \/ Discard(r)

Spec == Init /\ [][Next]_vars

(***************************************************************************)
(* One run of process after the other, the outcomes of the external calls  *)
(* and of the file writes drawn from the wide sets                         *)
(***************************************************************************)
\* the earlier requests have been served, one is still to come
InitPipeline ==
    /\ now = Start
    /\ uploads = <<>>
    /\ transcripts = InitFiles
    /\ rq = [r \in Req |-> Idle]
    /\ ops = MaxOps - 1
    /\ issued = <<>>
    /\ put = [id \in {EarlierId} |-> EarlierDoc]
    /\ fin = <<>>
    /\ fout = <<>>
    /\ fpc = "off"
    /\ wide = TRUE
    /\ faulty = FALSE

StartAlone(r) ==
    /\ \A o \in Req : rq[o].pc \in {"idle", "done"}
    /\ StartProcess(r)

NextPipeline ==
    \/ TickShort
    \/ TickLong
    \/ \E r \in Req :
           \/ StartAlone(r)
           \/ SweepDir(r)
           \/ SweepIsFile(r)
           \/ SweepDirDone(r)
           \/ SweepMtime(r)
           \/ SweepRemove(r)
           \/ Intake(r)
           \/ Pipeline(r)
           \/ Finish(r)

SpecPipeline == InitPipeline /\ [][NextPipeline]_vars

(***************************************************************************)
(* One run of process on a file system whose calls may fail during the     *)
(* sweep                                                                   *)
(***************************************************************************)
InitSweep ==
    /\ now = Start
    /\ uploads = [n \in {<<"a", ".", "mp3">>} |-> File(Start, Audio)]
    /\ transcripts = InitFiles
    /\ rq = [r \in Req |-> Idle]
    /\ ops = MaxOps - 1
    /\ issued = <<>>
    /\ put = [id \in {EarlierId} |-> EarlierDoc]
    /\ fin = <<>>
    /\ fout = <<>>
    /\ fpc = "off"
    /\ wide = FALSE
    /\ faulty = TRUE

SpecSweep == InitSweep /\ [][NextPipeline]_vars

(***************************************************************************)
(* The language normalizer on its own: one call on chosen inputs           *)
(***************************************************************************)
Absent == [k |-> "absent", v |-> JNull]

\* the JSON object with the fields of m that are not Absent
Fields(m) == JObj([key \in {x \in DOMAIN m : m[x] # Absent} |-> m[key]])

NormTexts == {<<>>, <<" ">>, <<"hola">>, <<" ", "hola">>}

\* the classification call raises, answers nothing, text that is no JSON, JSON
\* that is no object, or an object with or without the two fields read
NormDetects ==
    {Raise, Empty, Garbage, Json(JNull), Json(JList(<<>>)), Json(Spanish)}
    \cup {Json(Fields([detected_language |-> l, is_english |-> e])) :
              l \in {Absent, Spanish, JStr(<<"English">>), JNull, JList(<<Spanish>>)},
              e \in {Absent, JBool(TRUE), JBool(FALSE), JNull}}

NormTranslations ==
    {Raise, Ok(JNull), Ok(JStr(<<>>)), Ok(JStr(<<" ">>)), Ok(Hello),
     Ok(JStr(<<" ", "hello", "\n">>))}

InitNormalize ==
    /\ InitStore
    /\ fin \in [text : NormTexts, det : NormDetects, tr : NormTranslations]
    /\ fout = <<>>
    /\ fpc = "call"
    /\ wide = FALSE
    /\ faulty = FALSE

Normalize ==
    /\ fpc = "call"
    /\ fout' = detect_and_translate_if_needed(fin.text, fin.det, fin.tr)
    /\ fpc' = "done"
    /\ UNCHANGED <<sysVars, fin, wide, faulty>>

NextNormalize == Normalize

SpecNormalize == InitNormalize /\ [][NextNormalize]_vars

(***************************************************************************)
(* The memo extractor on its own: the structured attempt, then the         *)
(* fallback attempt, on chosen outcomes of the two calls                   *)
(***************************************************************************)
\* the action items the structured call may answer: strings, and objects with
\* an item text
ItemPool ==
    {JStr(<<>>), JStr(<<" ">>), JStr(<<" ", "ship", " ">>)}
    \cup {Fields([item |-> JStr(<<"doc">>), owner |-> o, due |-> d]) :
              o \in {Absent, JNull, JStr(<<>>), JStr(<<"Bob">>), JStr(<<" ">>)},
              d \in {Absent, JStr(<<>>), JStr(<<"Friday", " ">>)}}
    \cup {Fields([item |-> Absent, owner |-> JStr(<<"Bob">>), due |-> Absent]),
          Fields([item |-> JStr(<<" ">>), owner |-> Absent, due |-> Absent])}

\* memos with up to MaxItems action items
ItemMemos ==
    {JObj([title |-> JStr(<<"Sync">>), action_items |-> JList(xs)]) :
         xs \in UNION {[1..n -> ItemPool] : n \in 0..MaxItems}}

FullMemo ==
    JObj([title |-> JStr(<<" ", "Sync">>),
          meeting_type |-> JStr(<<"planning">>),
          summary_bullets |-> JList(<<JStr(<<"ship">>), JStr(<<" ">>)>>),
          decisions |-> JList(<<>>),
          notes_by_section |->
              JList(<<JObj([heading |-> JStr(<<"doc">>),
                            bullets |-> JList(<<JStr(<<"ship">>)>>)])>>)])

\* JSON that is no object
NotObjects == {JNull, JList(<<>>), JStr(<<"Sync">>), JNum(5)}

\* objects with a number or a boolean where a text or a list is read
Unprocessable ==
    {JObj([title |-> JNum(5)]),
     JObj([decisions |-> JNum(3)]),
     JObj([action_items |-> JBool(TRUE)]),
     JObj([action_items |-> JList(<<JObj([item |-> JNum(1)])>>)])}

\* objects that are no Memo but go through the renderer and the normalization
Lenient ==
    {JObj([meeting_type |-> JStr(<<"banana">>)]),
     JObj([decisions |-> JStr(<<"a", "b">>)]),
     JObj([action_items |-> JList(<<JNum(5), JStr(<<"ship">>)>>)])}

FallbackLines == {<<"-", " ", "ship">>, <<"note">>, <<" ", "-", " ", "fix">>, <<"-">>}

\* the fallback call raises, answers nothing, or up to MaxText lines
FallbackOutcomes ==
    {Raise, Ok(JNull)}
    \cup {Ok(JStr(JoinLines(ls))) :
              ls \in UNION {[1..n -> FallbackLines] : n \in 0..MaxText}}

ExtractInputs ==
    ([st : {Json(m) : m \in ItemMemos}, fb : {Raise}])
    \cup [st : {Raise, Empty, Garbage, Json(FullMemo), Json(JObj(EmptyDict))}
               \cup {Json(x) : x \in NotObjects \cup Unprocessable \cup Lenient},
          fb : FallbackOutcomes]

InitExtract ==
    /\ InitStore
    /\ fin \in ExtractInputs
    /\ fout = <<>>
    /\ fpc = "structured"
    /\ wide = FALSE
    /\ faulty = FALSE

\* lines 316-352: the structured call, json.loads, the rendering and the
\* normalization of the action items, all in one try block
ExtractStructured ==
    /\ fpc = "structured"
    /\ IF structured_raises(fin.st)
       THEN /\ fpc' = "fallback"
            /\ UNCHANGED fout
       ELSE /\ fpc' = "done"
            /\ fout' = structured_result(fin.st)
    /\ UNCHANGED <<sysVars, fin, wide, faulty>>

\* lines 354-376: the fallback call
ExtractFallback ==
    /\ fpc = "fallback"
    /\ fout' = fallback_result(fin.fb)
    /\ fpc' = "done"
    /\ UNCHANGED <<sysVars, fin, wide, faulty>>

NextExtract == ExtractStructured \/ ExtractFallback

SpecExtract == InitExtract /\ [][NextExtract]_vars

(***************************************************************************)
(* The memo renderer on its own: one call on chosen memos                  *)
(***************************************************************************)
Blank == JStr(<<" ">>)
Ship == JStr(<<"ship">>)

\* a section of the memo: absent, empty, one blank item, one item
SectionOptions == {Absent, JList(<<>>), JList(<<Blank>>), JList(<<Ship>>)}

\* notes_by_section: absent, one subsection with a heading and a bullet, one
\* with neither, one element that is no object
NotesOptions ==
    {Absent,
     JList(<<JObj([heading |-> JStr(<<"doc">>), bullets |-> JList(<<Ship, Blank>>)])>>),
     JList(<<JObj([heading |-> Blank, bullets |-> JList(<<Blank>>)])>>),
     JList(<<Ship>>)}

RenderMemos ==
    {Fields([title |-> t, meeting_type |-> JStr(<<"planning">>),
             summary_bullets |-> s1, key_topics |-> s2, decisions |-> s3,
             risks_blockers |-> s4, open_questions |-> s5, notes_by_section |-> n]) :
         t \in {Absent, JStr(<<" ", "Sync">>)},
         s1 \in SectionOptions, s2 \in SectionOptions, s3 \in SectionOptions,
         s4 \in SectionOptions, s5 \in SectionOptions, n \in NotesOptions}

InitRender ==
    /\ InitStore
    /\ fin \in RenderMemos
    /\ fout = <<>>
    /\ fpc = "call"
    /\ wide = FALSE
    /\ faulty = FALSE

Render ==
    /\ fpc = "call"
    /\ ~render_memo_raises(fin.v)
    /\ fout' = render_memo_to_text(fin.v)
    /\ fpc' = "done"
    /\ UNCHANGED <<sysVars, fin, wide, faulty>>

NextRender == Render

SpecRender == InitRender /\ [][NextRender]_vars

(***************************************************************************)
(* Properties of the requests                                              *)
(***************************************************************************)
Returned(r, op) == rq[r].pc = "done" /\ rq[r].op = op

\* the upload has a file part with a file name
UploadGiven(u) == u.has /\ u.raw # <<>>

\* 6 to 80 characters, each a letter, a digit, "_" or "-"
WellFormedId(id) ==
    /\ Len(id) \in MinIdLen..MaxIdLen
    /\ \A i \in DOMAIN id : id[i] \in IdChars

\* C1: a process request with a non-empty upload whose transcription call
\* succeeded is answered with a success response that holds meeting_id,
\* transcript, summary and action_items, whatever else fails; only a missing or
\* empty upload or a failed transcription call gives an error response.
C1_ProcessSucceedsAfterTranscription ==
    \A r \in Req :
        Returned(r, "process") =>
            /\ UploadGiven(rq[r].up) /\ rq[r].trOk =>
                   /\ rq[r].resp.code = 200
                   /\ {"meeting_id", "transcript", "summary", "action_items"}
                          \subseteq DOMAIN rq[r].resp.body.v
            /\ rq[r].resp.code # 200 =>
                   \/ ~UploadGiven(rq[r].up)
                   \/ rq[r].exc \in {"TranscriptionError", "FileNotFoundError"}

\* C2: download and discard answer a malformed id (BadIdError) differently from
\* a well-formed id that has no stored record: download tells the two apart,
\* discard rejects the first with 400 and reports success for the second.
C2_BadIdDistinctFromNotFound ==
    \A a, b \in Req :
        /\ rq[a].pc = "done" /\ rq[b].pc = "done"
        /\ rq[a].op = rq[b].op /\ rq[a].op \in {"download", "discard"}
        /\ rq[a].exc = "ValueError"
        /\ WellFormedId(rq[b].id)
        /\ IF rq[b].op = "download" THEN rq[b].exc = "FileNotFoundError"
           ELSE ~rq[b].hit
        => /\ rq[a].resp.code # rq[b].resp.code
           /\ rq[a].op = "discard" => rq[a].resp.code = 400 /\ rq[b].resp.code = 200

\* C3: an id is accepted exactly when it is 6 to 80 characters long and made of
\* letters, digits, "_" and "-" only; any other id is rejected with BadIdError.
C3_IdAcceptedIffWellFormed ==
    \A r \in Req :
        Returned(r, "download") \/ Returned(r, "discard") =>
            (rq[r].exc = "ValueError" <=> ~WellFormedId(rq[r].id))

\* C4: no two runs of process are given the same meeting id, whether they run
\* one after the other or at the same time.
C4_IdsNeverReused ==
    \A i, j \in DOMAIN issued : i # j => issued[i] # issued[j]

\* C5: the sweep never removes an artifact record: a record that was put and
\* not discarded is in the store, however old it is.
C5_SweepKeepsRecords ==
    \A id \in DOMAIN put : meeting_json_path(id) \in DOMAIN transcripts

\* C6: a get of an id that was put, with no put or delete of that id in
\* between, returns a record equal in every field to the one written.
C6_PutGetRoundTrip ==
    \A r \in Req :
        Returned(r, "download") /\ rq[r].hit =>
            /\ rq[r].resp.code = 200
            /\ rq[r].resp.body = rq[r].expect

\* C7: discarding a well-formed id succeeds whether or not a record is stored:
\* with no record the store is left as it was, and after the discard a second
\* one changes nothing (delete is idempotent).
C7_DiscardIdempotent ==
    [][\A r \in Req :
           /\ ops' = ops + 1
           /\ r = (ops % Cardinality(Req)) + 1
           /\ rq'[r].op = "discard"
           /\ WellFormedId(rq'[r].id)
           => /\ rq'[r].resp.code = 200
              /\ rq'[r].exc = "none"
              /\ meeting_json_path(rq'[r].id) \notin DOMAIN transcripts'
              /\ ~rq'[r].hit => transcripts' = transcripts
              /\ delete_meeting_artifacts(transcripts', rq'[r].id) =
                     [raised |-> "none", files |-> transcripts']]_vars

\* the same meeting was discarded twice: the first discard removed the record,
\* the second found none, both report success
C7_DiscardedTwice ==
    \E a, b \in Req :
        /\ Returned(a, "discard") /\ Returned(b, "discard")
        /\ rq[a].id = rq[b].id /\ WellFormedId(rq[a].id)
        /\ rq[a].hit /\ ~rq[b].hit
        /\ rq[a].resp.code = 200 /\ rq[b].resp.code = 200

(***************************************************************************)
(* Properties of the memo extractor and of the language normalizer         *)
(***************************************************************************)
\* the text a call answered, trimmed; none when it raised or answered nothing
Answered(out) == IF out.k = "ok" /\ out.v.k = "str" THEN Strip(out.v.v) ELSE <<>>

MeetingTypes == {<<"planning">>, <<"other">>}

IsText(x) == x.k = "str"
IsTexts(x) == x.k = "list" /\ \A i \in DOMAIN x.v : IsText(x.v[i])

\* the Memo of the data model: every field that is there has its type
MemoShaped(x) ==
    /\ x.k = "obj"
    /\ "title" \in DOMAIN x.v => IsText(x.v.title)
    /\ "meeting_type" \in DOMAIN x.v =>
           IsText(x.v.meeting_type) /\ x.v.meeting_type.v \in MeetingTypes
    /\ \A key \in Range(SectionKeys) \cap DOMAIN x.v : IsTexts(x.v[key])
    /\ "action_items" \in DOMAIN x.v =>
           /\ x.v.action_items.k = "list"
           /\ \A i \in DOMAIN x.v.action_items.v :
                  \/ IsText(x.v.action_items.v[i])
                  \/ /\ x.v.action_items.v[i].k = "obj"
                     /\ \A key \in DOMAIN x.v.action_items.v[i].v :
                            x.v.action_items.v[i].v[key].k \in {"str", "null"}
    /\ "notes_by_section" \in DOMAIN x.v =>
           /\ x.v.notes_by_section.k = "list"
           /\ \A i \in DOMAIN x.v.notes_by_section.v :
                  x.v.notes_by_section.v[i].k = "obj"

\* the lines of the fallback text that are "- " lines
DashLines(text) ==
    SelectSeq(SplitLines(text), LAMBDA ln : StartsWith(Strip(ln), <<"-", " ">>))

\* the result is the one of the fallback path: the fallback text, one action item
\* for each of its "- " lines, in order, the empty memo; all empty when the
\* fallback call failed
IsFallbackResult(out, fb) ==
    /\ out.fallback
    /\ out.summary = Answered(fb)
    /\ out.memo = JObj(EmptyDict)
    /\ Len(out.items) = Len(DashLines(Answered(fb)))
    /\ \A i \in DOMAIN out.items :
           StartsWith(DashLines(Answered(fb))[i], <<"-", " ">>) =>
               out.items[i] = Strip(DropFirst(DashLines(Answered(fb))[i], 2))
    /\ fb.k = "raise" => out.summary = <<>> /\ out.items = <<>>

ReportsNonEnglish(det) ==
    /\ det.k = "json"
    /\ det.v.k = "obj"
    /\ "is_english" \in DOMAIN det.v.v
    /\ det.v.v.is_english \in {JBool(FALSE), JNull}

\* C9: the normalizer never fails; it returns was_translated = true exactly when
\* the input is not empty, the classification succeeded and reported the text
\* as not English, and the translation call answered text that is not empty,
\* which is then the working text; in every other case the working text is the
\* input text; when only the translation failed or was empty the language
\* label of the classification is returned.
C9_NormalizerDegrades ==
    fpc = "done" =>
        LET wanted == Strip(fin.text) # <<>> /\ ReportsNonEnglish(fin.det)
            done == wanted /\ Answered(fin.tr) # <<>>
        IN  /\ ~fout.raised
            /\ fout.translated <=> done
            /\ done => fout.text = Answered(fin.tr)
            /\ ~done => fout.text = fin.text
            /\ wanted /\ ~done =>
                   fout.lang = IF "detected_language" \in DOMAIN fin.det.v.v
                               THEN fin.det.v.v.detected_language
                               ELSE Unknown

\* only the translation failed: the text is the input, the label is kept
C9_TranslationFailedLabelKept ==
    /\ fpc = "done"
    /\ fin.text = <<" ", "hola">>
    /\ fin.tr = Raise
    /\ ReportsNonEnglish(fin.det)
    /\ fout = NormResult(<<" ", "hola">>, Spanish, FALSE)

\* the text of a field of a structured item, the default when the field is
\* absent or empty
FieldOr(ai, key, default) ==
    IF key \notin DOMAIN ai.v \/ ai.v[key] \in {JNull, JStr(<<>>)} THEN default
    ELSE Strip(ai.v[key].v)

ItemText(ai) == IF ai.k = "str" THEN Strip(ai.v) ELSE FieldOr(ai, "item", <<>>)

Rendered(ai) ==
    IF ai.k = "str" THEN Strip(ai.v)
    ELSE ItemText(ai) \o <<" ", EmDash, " ">> \o FieldOr(ai, "owner", <<"Unassigned">>)
             \o <<" ", "(Due:", " ">> \o FieldOr(ai, "due", <<"Not", " ", "stated">>)
             \o <<")">>

Kept(xs) == SelectSeq(xs, LAMBDA ai : ItemText(ai) # <<>>)

\* C10: the action items returned are the extracted items whose text is not
\* empty after trimming, in the order of extraction, a string item trimmed, a
\* structured item as "<item> -- <owner> (Due: <due>)" with "Unassigned" and
\* "Not stated" for an owner and a due that are absent or empty; nothing else is
\* dropped, added or reordered.
C10_ActionItemsNormalized ==
    fpc = "done" /\ fin.st.k = "json" /\ fin.st.v \in ItemMemos =>
        /\ ~fout.fallback
        /\ fout.items = [i \in DOMAIN Kept(fin.st.v.v.action_items.v) |->
                             Rendered(Kept(fin.st.v.v.action_items.v)[i])]

\* a structured item with no owner before a string item, and both kept in order
C10_DefaultedThenString ==
    /\ fpc = "done"
    /\ fin.st.k = "json"
    /\ fin.st.v \in ItemMemos
    /\ Len(fin.st.v.v.action_items.v) = 2
    /\ fout.items =
           <<<<"doc", " ", EmDash, " ", "Unassigned", " ", "(Due:", " ", "Friday", ")">>,
             <<"ship">>>>

(***************************************************************************)
(* Properties of the memo renderer                                         *)
(***************************************************************************)
\* the list has an item that is not blank
HasItem(x) == x.k = "list" /\ \E i \in DOMAIN x.v : IsText(x.v[i]) /\ Strip(x.v[i].v) # <<>>

\* the section of the memo d under key has content to show
SectionHasContent(d, key) == key \in DOMAIN d /\ HasItem(d[key])

\* a subsection of the notes has a heading or a bullet to show
DetailsHaveContent(d) ==
    /\ "notes_by_section" \in DOMAIN d
    /\ d.notes_by_section.k = "list"
    /\ \E i \in DOMAIN d.notes_by_section.v :
           LET sec == d.notes_by_section.v[i]
           IN  /\ sec.k = "obj"
               /\ \/ "heading" \in DOMAIN sec.v /\ Strip(sec.v.heading.v) # <<>>
                  \/ "bullets" \in DOMAIN sec.v /\ HasItem(sec.v.bullets)

AllHeaders == SectionHeaders \o << <<"Details">> >>

\* C11: the rendered text starts with the title line and the "Type: ..." line;
\* the header of a section is in the text exactly when the section has content
\* to show; the headers that are there are in the order Summary, Key Topics,
\* Decisions, Risks / Blockers, Open Questions, Details; the text does not end
\* in a blank line.
C11_RenderOmitsEmptySections ==
    fpc = "done" /\ fin \in RenderMemos =>
        LET lines == SplitLines(fout)
            d == fin.v
        IN  /\ Len(lines) >= 2
            /\ lines[1] = IF "title" \in DOMAIN d THEN Strip(d.title.v)
                          ELSE <<"Meeting", " ", "Notes">>
            /\ lines[2] = <<"Type:", " ">> \o d.meeting_type.v
            /\ \A i \in DOMAIN SectionKeys :
                   (\E p \in DOMAIN lines : lines[p] = SectionHeaders[i])
                       <=> SectionHasContent(d, SectionKeys[i])
            /\ (\E p \in DOMAIN lines : lines[p] = <<"Details">>) <=> DetailsHaveContent(d)
            /\ \A i, j \in DOMAIN AllHeaders : \A p, q \in DOMAIN lines :
                   i < j /\ lines[p] = AllHeaders[i] /\ lines[q] = AllHeaders[j] => p < q
            /\ lines[Len(lines)] # <<>>
            /\ fout[Len(fout)] # "\n"

(***************************************************************************)
(* Properties of the retention sweep and of the deletion                   *)
(***************************************************************************)
\* C12: whatever fails during the sweep, a file or a folder, the sweep returns
\* and the process request goes on to the validation of the upload: no process
\* request is answered out of the sweep.
C12_SweepNeverAborts ==
    \A r \in Req : Returned(r, "process") => rq[r].exc # "OSError"

\* the instant x is before the instant y
Before(x, y) == x.s < y.s \/ (x.s = y.s /\ x.us < y.us)

\* at the instant t a file modified at m is older than the threshold
OlderThanThreshold(t, m) == Before([s |-> m.s + MAX_FILE_AGE_SECONDS, us |-> m.us], t)

OldFiles(files, t) ==
    {n \in DOMAIN files : ~files[n].dir /\ OlderThanThreshold(t, files[n].mtime)}

\* when a sweep is over, no regular file older than the threshold at the start
\* of the sweep is left in either folder
SweptClean ==
    \A r \in Req :
        rq[r].pc = "intake" =>
            OldFiles(uploads, rq[r].sweepNow) \cup OldFiles(transcripts, rq[r].sweepNow) = {}

\* what one step of a sweep may do
SweepStep(r) ==
    \* every process request starts with the sweep, timed at its start
    /\ ops' = ops + 1 /\ rq'[r].op = "process" /\ r = (ops % Cardinality(Req)) + 1 =>
           rq'[r].pc = "sweep_dir" /\ rq'[r].folder = 1 /\ rq'[r].sweepNow = now
    \* the upload is examined when both folders have been swept
    /\ rq[r].pc # "intake" /\ rq'[r].pc = "intake" =>
           rq[r].pc = "sweep_next" /\ rq[r].folder = 2 /\ rq[r].todo = <<>>
    \* a file is picked for removal only if it is a regular file older than the
    \* threshold
    /\ rq[r].pc = "sweep_mtime" /\ rq'[r].pc = "sweep_rm" =>
           /\ rq[r].cur \in DOMAIN Folder(rq[r].folder)
           /\ rq[r].cur \in OldFiles(Folder(rq[r].folder), rq[r].sweepNow)
    \* a file that is there and is not older is left in place
    /\ rq[r].pc = "sweep_mtime" /\ rq'[r].pc = "sweep_next" =>
           /\ rq[r].cur \notin OldFiles(Folder(rq[r].folder), rq[r].sweepNow)
           /\ uploads' = uploads /\ transcripts' = transcripts
    \* the removal removes the file picked, and nothing else
    /\ rq[r].pc = "sweep_rm" /\ rq'[r].pc = "sweep_next" =>
           /\ uploads' = IF rq[r].folder = 1 THEN Without(uploads, rq[r].cur) ELSE uploads
           /\ transcripts' = IF rq[r].folder = 2 THEN Without(transcripts, rq[r].cur)
                             ELSE transcripts
    \* the other steps of the sweep change no folder
    /\ rq[r].pc \in {"sweep_dir", "sweep_next"} /\ rq'[r] # rq[r] =>
           uploads' = uploads /\ transcripts' = transcripts

\* C13: with no failure, the sweep removes the regular files older than one
\* hour at its start, age taken strictly and as the sweep reads it, and nothing
\* else: a file of the age of the threshold or younger and a directory stay;
\* the sweep of both folders comes first in every process request.
C13_SweepRemovesExactlyOld ==
    /\ [](SweptClean /\ <<"archive">> \in DOMAIN transcripts)
    /\ [][\A r \in Req : SweepStep(r)]_vars

\* a sweep is over: the files of the earlier meeting, older than the hour, are
\* gone; a file written exactly one hour before the sweep began and the
\* directory are there
C13_HourOldFileKept ==
    \E r \in Req :
        /\ rq[r].pc = "intake"
        /\ memo_path(EarlierId) \notin DOMAIN transcripts
        /\ <<"archive">> \in DOMAIN transcripts
        /\ OlderThanThreshold(rq[r].sweepNow, transcripts[<<"archive">>].mtime)
        /\ \E n \in DOMAIN transcripts :
               /\ ~transcripts[n].dir
               /\ rq[r].sweepNow = [s |-> transcripts[n].mtime.s + MAX_FILE_AGE_SECONDS,
                                   us |-> transcripts[n].mtime.us]

\* one step of a request whose file is gone since its check
LostFileStep(r) ==
    \* load_meeting_artifacts: the record is gone since os.path.exists
    /\ rq[r].pc = "dl_open" /\ rq'[r] # rq[r]
       /\ meeting_json_path(rq[r].id) \notin DOMAIN transcripts =>
           /\ rq'[r].pc = "done"
           /\ rq'[r].exc = "FileNotFoundError"
           /\ rq'[r].resp = [code |-> 404, body |-> JNull]
    \* the sweep: the file is gone since os.path.isfile, or since the mtime read
    /\ rq[r].pc \in {"sweep_mtime", "sweep_rm"} /\ rq'[r] # rq[r]
       /\ rq[r].cur \notin DOMAIN Folder(rq[r].folder) =>
           /\ rq'[r].pc = "sweep_next"
           /\ rq'[r].todo = rq[r].todo
           /\ rq'[r].resp = NoResp
           /\ uploads' = uploads /\ transcripts' = transcripts

\* C14: a file removed by a concurrent sweep or discard between the check and
\* the access of another request is handled as not found: the download whose
\* record is gone since the existence check answers 404 (FileNotFoundError), no
\* download ends otherwise than found or not found, and the sweep that loses a
\* file after its is-file check skips it and goes on with the rest of the listing.
C14_LostFileIsNotFound ==
    /\ [](\A r \in Req : Returned(r, "download") => rq[r].resp.code \in {200, 404})
    /\ [][\A r \in Req : LostFileStep(r)]_vars

\* a download passed the existence check, a discard of the same id removed the
\* record, and the download answered not found
C14_DownloadLostToDiscard ==
    \E a, b \in Req :
        /\ Returned(a, "download") /\ rq[a].lost
        /\ rq[a].resp.code = 404 /\ rq[a].exc = "FileNotFoundError"
        /\ Returned(b, "discard") /\ rq[b].id = rq[a].id /\ rq[b].hit

\* the meetings there are or were
Meetings == {EarlierId} \cup Range(issued)

TxtSuffix == <<".", "t", "x", "t">>

\* C15: the discard of a well-formed id changes nothing but the presence of the
\* record of that id: the records of the other ids, the sidecar memo of every
\* meeting, the transcript text files and the uploads stay as they are.
C15_DiscardKeepsSiblings ==
    [][\A r \in Req :
           /\ ops' = ops + 1
           /\ r = (ops % Cardinality(Req)) + 1
           /\ rq'[r].op = "discard"
           /\ WellFormedId(rq'[r].id)
           => /\ uploads' = uploads
              /\ \A n \in DOMAIN transcripts :
                     \/ n = meeting_json_path(rq'[r].id) /\ n \notin {memo_path(m) : m \in Meetings}
                     \/ n \in DOMAIN transcripts' /\ transcripts'[n] = transcripts[n]
              /\ \A m \in Meetings :
                     memo_path(m) \in DOMAIN transcripts => memo_path(m) \in DOMAIN transcripts'
              /\ \A n \in DOMAIN transcripts :
                     EndsWith(n, TxtSuffix) => n \in DOMAIN transcripts']_vars

====
